---- MODULE Spec2Model ----
(***************************************************************************)
(* Order pricing with stacked discounts (src/main.cpp).                    *)
(*                                                                         *)
(* CumulativePriceCalculator::CalculatePrice walks the lines of an order,  *)
(* multiplies each line price by the complements of the item, line and     *)
(* buyer discounts, sums the lines and finally applies the order-level     *)
(* discount to the sum.                                                    *)
(*                                                                         *)
(* The C++ code computes in double.  The model computes in exact rational  *)
(* arithmetic (records [num, den] in lowest terms), so floating-point      *)
(* rounding is outside the model; every other step follows the code.       *)
(*                                                                         *)
(* A caller owns two Order objects and calls the calculator on either of   *)
(* them, any number of times; each call runs line by line.  Every          *)
(* DiscountPercent call is logged with its arguments.                      *)
(***************************************************************************)
EXTENDS Integers, Sequences, FiniteSets

\* Longest line sequence of an order the caller builds.
MaxLines == 2

VARIABLES
    orders,     \* <<Order, Order>>: the two orders the caller holds
    cur,        \* which of the two the running call was given (0: no call)
    pc,         \* "idle" | "loop" | "done": position inside CalculatePrice
    i,          \* index of the next line of the for loop
    price,      \* the local `price` of CalculatePrice
    evals,      \* DiscountPercent calls made by the running call, in order
    results     \* what the calls made so far returned

vars == <<orders, cur, pc, i, price, evals, results>>

----------------------------------------------------------------------------
(* double arithmetic, as exact rationals *)

Abs(x) == IF x < 0 THEN -x ELSE x

RECURSIVE GCD(_, _)
GCD(a, b) == IF b = 0 THEN a ELSE GCD(b, a % b)

LCM(a, b) == (a \div GCD(a, b)) * b

\* The rational n/d (d # 0) in lowest terms with a positive denominator.
Rat(n, d) ==
    LET s == IF d < 0 THEN -1 ELSE 1
        g == GCD(Abs(n), Abs(d))
    IN  [num |-> (s * n) \div g, den |-> (s * d) \div g]

RInt(n) == [num |-> n, den |-> 1]
Zero == RInt(0)
One == RInt(1)

RAdd(a, b) ==
    LET l == LCM(a.den, b.den)
    IN  Rat(a.num * (l \div a.den) + b.num * (l \div b.den), l)

RSub(a, b) ==
    LET l == LCM(a.den, b.den)
    IN  Rat(a.num * (l \div a.den) - b.num * (l \div b.den), l)

RMul(a, b) ==
    LET g1 == GCD(Abs(a.num), b.den)
        g2 == GCD(Abs(b.num), a.den)
    IN  Rat((a.num \div g1) * (b.num \div g2), (a.den \div g2) * (b.den \div g1))

RGe(a, b) ==
    LET l == LCM(a.den, b.den)
    IN  a.num * (l \div a.den) >= b.num * (l \div b.den)

----------------------------------------------------------------------------
(* DiscountType and its four implementations *)

\* A null DiscountType*.
Null == [kind |-> "null", discount |-> Zero, min |-> Zero]

FixedDiscount(discount) ==
    [kind |-> "fixed", discount |-> discount, min |-> Zero]

VolumeDiscount(quantity, discount) ==
    [kind |-> "volume", discount |-> discount, min |-> quantity]

PriceDiscount(minPrice, discount) ==
    [kind |-> "price", discount |-> discount, min |-> minPrice]

AmountDiscount(minPrice, discount) ==
    [kind |-> "amount", discount |-> discount, min |-> minPrice]

\* Faulty variants of DiscountPercent: a strict volume threshold, a volume
\* rule that reads the price, a price rule that ignores the quantity.
DiscountPercentStrict(d, p, quantity) ==
    CASE d.kind = "fixed"  -> d.discount
      [] d.kind = "volume" -> IF RGe(quantity, d.min) /\ quantity # d.min
                              THEN d.discount ELSE Zero
      [] d.kind = "price"  -> IF RGe(RMul(p, quantity), d.min) THEN d.discount ELSE Zero
      [] d.kind = "amount" -> IF RGe(p, d.min) THEN d.discount ELSE Zero

DiscountPercentVolumeOnPrice(d, p, quantity) ==
    CASE d.kind = "fixed"  -> d.discount
      [] d.kind = "volume" -> IF RGe(p, d.min) THEN d.discount ELSE Zero
      [] d.kind = "price"  -> IF RGe(RMul(p, quantity), d.min) THEN d.discount ELSE Zero
      [] d.kind = "amount" -> IF RGe(p, d.min) THEN d.discount ELSE Zero

DiscountPercentPriceOnly(d, p, quantity) ==
    CASE d.kind = "fixed"  -> d.discount
      [] d.kind = "volume" -> IF RGe(quantity, d.min) THEN d.discount ELSE Zero
      [] d.kind = "price"  -> IF RGe(p, d.min) THEN d.discount ELSE Zero
      [] d.kind = "amount" -> IF RGe(p, d.min) THEN d.discount ELSE Zero

\* d->DiscountPercent(p, quantity), dispatched on the dynamic type of d.
DiscountPercent(d, p, quantity) ==
    CASE d.kind = "fixed"  -> d.discount
      [] d.kind = "volume" -> IF RGe(quantity, d.min) THEN d.discount ELSE Zero
      [] d.kind = "price"  -> IF RGe(RMul(p, quantity), d.min) THEN d.discount ELSE Zero
      [] d.kind = "amount" -> IF RGe(p, d.min) THEN d.discount ELSE Zero

----------------------------------------------------------------------------
(* The objects the caller builds.  d1..d4, c1..c3 and a1..a3 are those of   *)
(* main(), with the thresholds of d2, d3 and d4 scaled down to the small   *)
(* quantities the orders below use.                                        *)

d1 == FixedDiscount(Rat(1, 10))
d2 == VolumeDiscount(RInt(2), Rat(3, 20))
d3 == PriceDiscount(RInt(20), Rat(1, 20))
d4 == AmountDiscount(RInt(10), Rat(1, 20))
\* a volume discount whose threshold is not positive
d5 == VolumeDiscount(Zero, Rat(1, 10))
\* a discount outside [0,1)
d6 == FixedDiscount(Rat(3, 2))
\* a discount that is always 0
d0 == FixedDiscount(Zero)

\* Customer: `present` is FALSE for a null Customer*.
NoBuyer == [present |-> FALSE, discount |-> Null]
Customer(discount) == [present |-> TRUE, discount |-> discount]
c1 == Customer(Null)
c2 == Customer(d1)
c3 == Customer(d3)

Article(p, discount) == [price |-> RInt(p), discount |-> discount]
a1 == Article(5, Null)
a2 == Article(15, d1)
a3 == Article(10, d2)

OrderLine(product, quantity, discount) ==
    [product |-> product, quantity |-> quantity, discount |-> discount]

Lines ==
    { OrderLine(a1, 2, Null),
      OrderLine(a2, 1, Null),
      OrderLine(a2, 1, d4),
      OrderLine(a3, 1, Null),
      OrderLine(a3, 2, Null),
      OrderLine(a3, 3, Null) }

Buyers == {NoBuyer, c1, c2, c3}

OrderDiscounts == {Null, d2, d3, d4, d5, d6}

LineSeqs == UNION {[1..n -> Lines] : n \in 0..MaxLines}

Order(buyer, lines, discount) ==
    [buyer |-> buyer, lines |-> lines, discount |-> discount]

Orders == {Order(b, ls, d) : b \in Buyers, ls \in LineSeqs, d \in OrderDiscounts}

----------------------------------------------------------------------------
(* The second order the caller holds is the first one with one reference  *)
(* changed.                                                                *)

WithoutOrderDiscount(o) == [o EXCEPT !.discount = Null]

WithBuyerWithoutDiscount(o) ==
    IF o.buyer.present THEN o ELSE [o EXCEPT !.buyer = c1]

OrElse(d, r) == IF d = Null THEN r ELSE d

WithItemDiscountsOrElse(o, r) ==
    [o EXCEPT !.lines =
        [k \in 1..Len(o.lines) |->
            [o.lines[k] EXCEPT !.product.discount = OrElse(@, r)]]]

WithLineDiscountsOrElse(o, r) ==
    [o EXCEPT !.lines =
        [k \in 1..Len(o.lines) |-> [o.lines[k] EXCEPT !.discount = OrElse(@, r)]]]

WithOrderDiscountOrElse(o, r) == [o EXCEPT !.discount = OrElse(@, r)]

\* The same order again, or the order without its order-level discount.
Related(o) == {o, WithoutOrderDiscount(o)}

\* The order with a missing reference filled in by an object that grants
\* nothing.
Substituted(o) ==
    { WithBuyerWithoutDiscount(o), WithItemDiscountsOrElse(o, d0),
      WithLineDiscountsOrElse(o, d0), WithOrderDiscountOrElse(o, d0) }

----------------------------------------------------------------------------
(* CalculatePrice *)

\* Faulty variant: the quantity is forgotten.
LineBaseNoQuantity(ol) == ol.product.price

\* double line_price = ol.product.price * ol.quantity;
LineBase(ol) == RMul(ol.product.price, RInt(ol.quantity))

\* Faulty variant: a rule is handed the line price as discounted so far.
EvalArgsStale(ol, line_price) == <<line_price, RInt(ol.quantity)>>

\* The arguments of every per-line DiscountPercent call: the article's price
\* and the line's quantity, whatever line_price has become.
EvalArgs(ol, line_price) == <<ol.product.price, RInt(ol.quantity)>>

\* Faulty variant: a surcharge instead of a discount.
DiscountedPlus(x, d, args) ==
    RMul(x, RAdd(One, DiscountPercent(d, args[1], args[2])))

\* x *= (1.0 - d->DiscountPercent(args))
Discounted(x, d, args) ==
    RMul(x, RSub(One, DiscountPercent(d, args[1], args[2])))

Eval(point, k, args) ==
    [point |-> point, line |-> k, price |-> args[1], quantity |-> args[2]]

\* One discount step of the loop body: the pair <<line price, log>> after
\* `if (d) line_price *= ...` .
Step(s, has, d, point, k, args) ==
    IF has
    THEN <<Discounted(s[1], d, args), Append(s[2], Eval(point, k, args))>>
    ELSE s

\* Faulty variant: the three fractions of a line summed instead of stacked.
LineStepAdditive(o, k, log) ==
    LET ol == o.lines[k]
        hasB == o.buyer.present /\ o.buyer.discount # Null
        args == EvalArgs(ol, LineBase(ol))
        f(has, d) == IF has THEN DiscountPercent(d, args[1], args[2]) ELSE Zero
        sum == RAdd(RAdd(f(ol.product.discount # Null, ol.product.discount),
                         f(ol.discount # Null, ol.discount)),
                    f(hasB, o.buyer.discount))
        l1 == IF ol.product.discount # Null
              THEN Append(log, Eval("item", k, args)) ELSE log
        l2 == IF ol.discount # Null THEN Append(l1, Eval("line", k, args)) ELSE l1
        l3 == IF hasB THEN Append(l2, Eval("buyer", k, args)) ELSE l2
    IN  <<RMul(LineBase(ol), RSub(One, sum)), l3>>

\* The body of the for loop up to `price += line_price`.
LineStep(o, k, log) ==
    LET ol == o.lines[k]
        s0 == <<LineBase(ol), log>>
        s1 == Step(s0, ol.product.discount # Null, ol.product.discount,
                   "item", k, EvalArgs(ol, s0[1]))
        s2 == Step(s1, ol.discount # Null, ol.discount,
                   "line", k, EvalArgs(ol, s1[1]))
        s3 == Step(s2, o.buyer.present /\ o.buyer.discount # Null, o.buyer.discount,
                   "buyer", k, EvalArgs(ol, s2[1]))
    IN  s3

\* Faulty variant: the number of lines as the quantity.
OrderArgsLineCount(o, total) == <<total, RInt(Len(o.lines))>>

\* The arguments of the order-level DiscountPercent call.
OrderArgs(o, total) == <<total, RInt(0)>>

\* Faulty variant: price is kept from the previous call.
CallNoReset(n) ==
    /\ pc = "idle"
    /\ cur' = n
    /\ pc' = "loop"
    /\ i' = 1
    /\ evals' = <<>>
    /\ UNCHANGED <<orders, results, price>>

\* Faulty variant: the lines of an order without a buyer are not priced.
CallRequiresBuyer(n) ==
    /\ pc = "idle"
    /\ cur' = n
    /\ pc' = "loop"
    /\ i' = IF orders[n].buyer.present THEN 1 ELSE Len(orders[n].lines) + 1
    /\ price' = Zero
    /\ evals' = <<>>
    /\ UNCHANGED <<orders, results>>

\* calc.CalculatePrice(orders[n]): entry, double price = 0
Call(n) ==
    /\ pc = "idle"
    /\ cur' = n
    /\ pc' = "loop"
    /\ i' = 1
    /\ price' = Zero
    /\ evals' = <<>>
    /\ UNCHANGED <<orders, results>>

\* One iteration of for (auto ol : o.lines)
ProcessLine ==
    /\ pc = "loop"
    /\ i <= Len(orders[cur].lines)
    /\ LET s == LineStep(orders[cur], i, evals)
       IN  /\ price' = RAdd(price, s[1])
           /\ evals' = s[2]
    /\ i' = i + 1
    /\ UNCHANGED <<orders, cur, pc, results>>

\* After the loop: if (o.discount) price *= ...
OrderLevel ==
    /\ pc = "loop"
    /\ i > Len(orders[cur].lines)
    /\ LET o == orders[cur]
           s == Step(<<price, evals>>, o.discount # Null, o.discount,
                     "order", 0, OrderArgs(o, price))
       IN  /\ price' = s[1]
           /\ evals' = s[2]
    /\ pc' = "done"
    /\ UNCHANGED <<orders, cur, i, results>>

\* return price;
Return ==
    /\ pc = "done"
    /\ results' = results \cup {[ord |-> cur, total |-> price, evals |-> evals]}
    /\ pc' = "idle"
    /\ cur' = 0
    /\ i' = 1
    /\ evals' = <<>>
    /\ UNCHANGED <<orders, price>>

InitWith(a, b) ==
    /\ orders = <<a, b>>
    /\ cur = 0
    /\ pc = "idle"
    /\ i = 1
    /\ price = Zero
    /\ evals = <<>>
    /\ results = {}

Init == \E a \in Orders : \E b \in Related(a) : InitWith(a, b)

Next ==
    \/ \E n \in 1..2 : Call(n)
    \/ ProcessLine
    \/ OrderLevel
    \/ Return

Spec == Init /\ [][Next]_vars

InitSubstituted == \E a \in Orders : \E b \in Substituted(a) : InitWith(a, b)

SpecSubstituted == InitSubstituted /\ [][Next]_vars

----------------------------------------------------------------------------
(* Two orders alike but for the configured fraction of one attached rule.  *)

OtherFraction == Rat(1, 2)

Refraction(d) == [d EXCEPT !.discount = OtherFraction]

Twins(o) ==
    {[o EXCEPT !.lines[k].product.discount = Refraction(@)] :
        k \in {j \in 1..Len(o.lines) : o.lines[j].product.discount # Null}}
    \cup
    {[o EXCEPT !.lines[k].discount = Refraction(@)] :
        k \in {j \in 1..Len(o.lines) : o.lines[j].discount # Null}}
    \cup
    (IF o.buyer.present /\ o.buyer.discount # Null
     THEN {[o EXCEPT !.buyer.discount = Refraction(@)]} ELSE {})
    \cup
    (IF o.discount # Null THEN {[o EXCEPT !.discount = Refraction(@)]} ELSE {})

InitTwin == \E a \in Orders : \E b \in Twins(a) : InitWith(a, b)

SpecTwin == InitTwin /\ [][Next]_vars

----------------------------------------------------------------------------
(* Vocabulary of the properties *)

\* The order the running call was given.
CurOrder == orders[cur]

RLt(a, b) == ~RGe(a, b)

Complement(f) == RSub(One, f)

\* The fraction an attachment point contributes to a line: 0 without a rule,
\* else the rule evaluated on the article's price and the line's quantity.
FractionAt(d, ol) ==
    IF d = Null THEN Zero
    ELSE DiscountPercent(d, ol.product.price, RInt(ol.quantity))

BuyerFractionAt(o, ol) ==
    IF o.buyer.present THEN FractionAt(o.buyer.discount, ol) ELSE Zero

Gross(ol) == RMul(ol.product.price, RInt(ol.quantity))

StackedLine(o, ol) ==
    RMul(RMul(RMul(Gross(ol), Complement(FractionAt(ol.product.discount, ol))),
              Complement(FractionAt(ol.discount, ol))),
         Complement(BuyerFractionAt(o, ol)))

\* Sum of the stacked prices of the first n lines.
RECURSIVE StackedSum(_, _)
StackedSum(o, n) ==
    IF n = 0 THEN Zero ELSE RAdd(StackedSum(o, n - 1), StackedLine(o, o.lines[n]))

\* Sum of unitPrice * quantity over the first n lines.
RECURSIVE GrossSum(_, _)
GrossSum(o, n) ==
    IF n = 0 THEN Zero ELSE RAdd(GrossSum(o, n - 1), Gross(o.lines[n]))

HasBuyerDiscount(o) == o.buyer.present /\ o.buyer.discount # Null

NoDiscountAnywhere(o) ==
    /\ o.discount = Null
    /\ ~HasBuyerDiscount(o)
    /\ \A k \in 1..Len(o.lines) :
          o.lines[k].product.discount = Null /\ o.lines[k].discount = Null

\* The rules attached to an order, its lines, their articles and its buyer.
AttachedRules(o) ==
    ({o.discount} \cup (IF o.buyer.present THEN {o.buyer.discount} ELSE {})
     \cup {o.lines[k].product.discount : k \in 1..Len(o.lines)}
     \cup {o.lines[k].discount : k \in 1..Len(o.lines)}) \ {Null}

WellFormed(o) ==
    /\ \A d \in AttachedRules(o) : RGe(d.discount, Zero) /\ RLt(d.discount, One)
    /\ \A k \in 1..Len(o.lines) :
          RGe(o.lines[k].product.price, Zero) /\ o.lines[k].quantity >= 0

\* results changes only when a call returns, so every value it takes is seen
\* between two calls.
BetweenCalls == pc = "idle"

PerLine(log) == SelectSeq(log, LAMBDA e : e.point # "order")
OrderLevelEvals(log) == SelectSeq(log, LAMBDA e : e.point = "order")

----------------------------------------------------------------------------
(* C1: without an order-level discount CalculatePrice returns the sum over *)
(* the lines of unitPrice*quantity*(1-f_item)*(1-f_line)*(1-f_buyer), each *)
(* fraction being 0 without a rule and else the rule evaluated on the      *)
(* line's original (unitPrice, quantity); two fixed discounts f1 and f2 on *)
(* one line give unitPrice*quantity*(1-f1)*(1-f2), not *(1-(f1+f2)).       *)
C1_LineDiscountsStack ==
    (pc = "done" /\ CurOrder.discount = Null) =>
        LET o == CurOrder
        IN  /\ price = StackedSum(o, Len(o.lines))
            /\ (/\ Len(o.lines) = 1
                /\ o.lines[1].product.discount.kind = "fixed"
                /\ o.lines[1].discount = Null
                /\ o.buyer.present
                /\ o.buyer.discount.kind = "fixed")
               => LET f1 == o.lines[1].product.discount.discount
                      f2 == o.buyer.discount.discount
                      g  == Gross(o.lines[1])
                  IN  /\ price = RMul(RMul(g, Complement(f1)), Complement(f2))
                      /\ (f1 # Zero /\ f2 # Zero /\ g # Zero)
                         => price # RMul(g, Complement(RAdd(f1, f2)))

C1_Witness ==
    /\ pc = "done"
    /\ CurOrder = Order(c2, <<OrderLine(a2, 1, Null)>>, Null)
    /\ price = Rat(243, 20)

(* C2: with no discount attached anywhere, for any number of lines         *)
(* including zero, CalculatePrice returns the sum of unitPrice*quantity.   *)
C2_NoDiscountsGrossSum ==
    (pc = "done" /\ NoDiscountAnywhere(CurOrder)) =>
        price = GrossSum(CurOrder, Len(CurOrder.lines))

C2_Witness ==
    /\ pc = "done"
    /\ NoDiscountAnywhere(CurOrder)
    /\ Len(CurOrder.lines) = 2
    /\ price = RInt(20)

(* C3: an order-level rule is evaluated exactly once, after all lines are  *)
(* summed, on (S, 0) with S the sum of the discounted line prices, and the *)
(* total is S*(1 - rule(S, 0)); it is never evaluated per line; an         *)
(* order-level amount threshold applies iff S >= min.                      *)
C3_OrderLevelOnceOnSum ==
    /\ pc = "loop" => OrderLevelEvals(evals) = <<>>
    /\ (pc = "done" /\ CurOrder.discount # Null) =>
        LET o == CurOrder
            d == o.discount
            S == StackedSum(o, Len(o.lines))
        IN  /\ OrderLevelEvals(evals) = <<Eval("order", 0, <<S, Zero>>)>>
            /\ evals[Len(evals)].point = "order"
            /\ price = RMul(S, Complement(DiscountPercent(d, S, Zero)))
            /\ d.kind = "amount" =>
                  price = IF RGe(S, d.min) THEN RMul(S, Complement(d.discount)) ELSE S

\* The discounted sum is below the threshold that the undiscounted sum meets.
C3_Witness ==
    /\ pc = "done"
    /\ CurOrder.discount = d4
    /\ Len(CurOrder.lines) = 1
    /\ LET S == StackedSum(CurOrder, 1)
       IN  /\ RLt(S, d4.min)
           /\ RGe(GrossSum(CurOrder, 1), d4.min)
           /\ Len(evals) = 2
           /\ price = S

(* C4 as claimed: no rule observes another rule's output - changing only   *)
(* the fraction of one attached rule changes the arguments of no rule      *)
(* evaluation, at item, line, buyer or order level.                        *)
C4_NoRuleObservesAnother ==
    BetweenCalls => \A r1, r2 \in results : r1.ord # r2.ord => r1.evals = r2.evals

(* C4 as amended: changing only the fraction of one attached rule changes  *)
(* the (price, quantity) arguments of no item, line or buyer evaluation    *)
(* and not the quantity argument of the order-level evaluation.            *)
C4_PerLineArgumentsIndependent ==
    BetweenCalls => \A r1, r2 \in results :
        r1.ord # r2.ord =>
            /\ PerLine(r1.evals) = PerLine(r2.evals)
            /\ LET e1 == OrderLevelEvals(r1.evals)
                   e2 == OrderLevelEvals(r2.evals)
               IN  /\ Len(e1) = Len(e2)
                   /\ \A k \in 1..Len(e1) : e1[k].quantity = e2[k].quantity

C4_Witness ==
    \E r1, r2 \in results :
        /\ r1.ord = 1 /\ r2.ord = 2
        /\ orders[1] = Order(c3, <<OrderLine(a2, 1, d4)>>, d4)
        /\ orders[2] = [orders[1] EXCEPT !.lines[1].product.discount = Refraction(@)]
        /\ Len(PerLine(r1.evals)) = 3
        /\ r1.total # r2.total

(* C5: an order-level volume rule is evaluated with quantity 0 and, its    *)
(* threshold being positive, leaves the total what it is for the same      *)
(* order without an order-level rule.                                      *)
C5_OrderLevelVolumeInert ==
    BetweenCalls => \A r1, r2 \in results :
        LET o1 == orders[r1.ord]
            o2 == orders[r2.ord]
        IN  (/\ o1.discount.kind = "volume"
             /\ o1.discount.min.num > 0
             /\ o2 = WithoutOrderDiscount(o1))
            => /\ r1.total = r2.total
               /\ \A k \in 1..Len(r1.evals) :
                     r1.evals[k].point = "order" => r1.evals[k].quantity = Zero

C5_Witness ==
    \E r1, r2 \in results :
        /\ r1.ord = 1 /\ r2.ord = 2
        /\ orders[1].discount = d2
        /\ orders[2] = WithoutOrderDiscount(orders[1])
        /\ Len(orders[1].lines) = 2
        /\ orders[1].lines[1].quantity + orders[1].lines[2].quantity >= 2
        /\ RGe(r1.total, d2.min)

(* C6: VolumeRule(minQty, f) contributes 0 when quantity < minQty and f    *)
(* when quantity >= minQty, the boundary included: a single line whose     *)
(* item carries only such a rule totals unitPrice*quantity below the       *)
(* threshold and unitPrice*quantity*(1-f) from it on.                      *)
C6_VolumeThreshold ==
    (/\ pc = "done"
     /\ Len(CurOrder.lines) = 1
     /\ CurOrder.lines[1].product.discount.kind = "volume"
     /\ CurOrder.lines[1].discount = Null
     /\ ~HasBuyerDiscount(CurOrder)
     /\ CurOrder.discount = Null)
    => LET ol == CurOrder.lines[1]
           d == ol.product.discount
       IN  price = IF ol.quantity * d.min.den < d.min.num
                   THEN Gross(ol)
                   ELSE RMul(Gross(ol), Complement(d.discount))

C6_Witness ==
    /\ pc = "done"
    /\ CurOrder = Order(c1, <<OrderLine(a3, 2, Null)>>, Null)
    /\ RInt(CurOrder.lines[1].quantity) = d2.min
    /\ price = RInt(17)

(* C7: missing references are skipped: a null buyer totals as a buyer      *)
(* without a rule; a null item, line or order-level rule totals as a rule  *)
(* that always returns 0 there; an order without lines totals 0, its       *)
(* order-level rule, if any, being evaluated on (0, 0).                    *)
C7_MissingReferencesSkipped ==
    BetweenCalls =>
    /\ \A r1, r2 \in results :
          LET o1 == orders[r1.ord]
              o2 == orders[r2.ord]
          IN  /\ (~o1.buyer.present /\ o2 = WithBuyerWithoutDiscount(o1))
                 => r1.total = r2.total
              /\ o2 \in { WithItemDiscountsOrElse(o1, d0),
                          WithLineDiscountsOrElse(o1, d0),
                          WithOrderDiscountOrElse(o1, d0) }
                 => r1.total = r2.total
    /\ \A r \in results :
          LET o == orders[r.ord]
          IN  Len(o.lines) = 0 =>
                /\ r.total = Zero
                /\ r.evals = IF o.discount = Null THEN <<>>
                             ELSE <<Eval("order", 0, <<Zero, Zero>>)>>

C7_Witness ==
    \E r1, r2 \in results :
        /\ r1.ord = 1 /\ r2.ord = 2
        /\ ~orders[1].buyer.present
        /\ orders[2] = WithBuyerWithoutDiscount(orders[1])
        /\ Len(orders[1].lines) = 2
        /\ r1.total # Zero
        /\ r1.total = r2.total

(* C8: every call of CalculatePrice on the same unmutated order returns    *)
(* the same total, whatever calls were made before it.                     *)
C8_Idempotent ==
    /\ BetweenCalls => \A r1, r2 \in results :
          orders[r1.ord] = orders[r2.ord] => r1.total = r2.total
    /\ pc = "done" =>
          \A r \in results : orders[r.ord] = CurOrder => r.total = price

C8_Witness ==
    /\ pc = "done"
    /\ orders[1] # orders[2]
    /\ price # Zero
    /\ \E r1, r2 \in results :
          /\ r1.ord = cur /\ r2.ord # cur
          /\ r1.total = price
          /\ r2.total # price

(* C9: an order-level price-threshold rule is evaluated as total*0 >= min  *)
(* and, its threshold being positive, leaves the total what it is for the  *)
(* same order without an order-level rule.                                 *)
C9_OrderLevelPriceThresholdInert ==
    BetweenCalls => \A r1, r2 \in results :
        LET o1 == orders[r1.ord]
            o2 == orders[r2.ord]
        IN  (/\ o1.discount.kind = "price"
             /\ o1.discount.min.num > 0
             /\ o2 = WithoutOrderDiscount(o1))
            => r1.total = r2.total

C9_Witness ==
    \E r1, r2 \in results :
        /\ r1.ord = 1 /\ r2.ord = 2
        /\ orders[1].discount = d3
        /\ orders[2] = WithoutOrderDiscount(orders[1])
        /\ RGe(r1.total, d3.min)
        /\ r1.total = r2.total

(* C10: with non-negative prices and quantities and every attached rule's  *)
(* fraction in [0,1), the running total after each line and the returned   *)
(* total are non-negative and at most the undiscounted sum.                *)
C10_TotalWithinBounds ==
    (pc \in {"loop", "done"} /\ WellFormed(CurOrder)) =>
        /\ RGe(price, Zero)
        /\ RGe(GrossSum(CurOrder, i - 1), price)
        /\ RGe(GrossSum(CurOrder, Len(CurOrder.lines)), price)

C10_Witness ==
    /\ pc = "done"
    /\ WellFormed(CurOrder)
    /\ CurOrder.discount = d4
    /\ Len(CurOrder.lines) = 2
    /\ RLt(Zero, price)
    /\ RLt(price, StackedSum(CurOrder, 2))
    /\ RLt(StackedSum(CurOrder, 2), GrossSum(CurOrder, 2))

====
